---- MODULE Spec2Model ----
(***************************************************************************)
(* Model of the ovsbridge CNI plugin (plugins/main/ovsbridge/ovsbridge.go). *)
(*                                                                         *)
(* Every plugin invocation (cmdAdd or cmdDel) is one process of Procs; the *)
(* host kernel (namespaces, veth pairs) and the switch daemon (switches,   *)
(* port bindings) are the shared state.  One action per blocking call of   *)
(* the handlers, so that concurrent invocations interleave at the calls.   *)
(***************************************************************************)
EXTENDS Integers, Sequences, FiniteSets, TLC

VARIABLES
    switches,    \* names of the switches that exist in the switch daemon
    ports,       \* port bindings of the daemon: records [sw, ifname]
    namespaces,  \* paths of the network namespaces that exist
    veths,       \* veth pairs that exist: [host, cont, ns, mtu]
    pc,          \* per invocation: the statement it is at
    req,         \* per invocation: skel.CmdArgs [cmd, stdin, netns, ifName]
    n,           \* per invocation: *NetConf returned by loadNetConf
    br,          \* per invocation: bridgeName of the *OVSSwitch, "" = nil
    handle,      \* per invocation: "none", "open" or "closed" (netns)
    hostIface,   \* per invocation: setupVeth's hostIface
    contIface,   \* per invocation: setupVeth's contIface
    result,      \* per invocation: result.Interfaces
    retStatus,   \* per invocation: "running", "ok", "err" or "panic"
    retErr,      \* per invocation: the error returned
    out,         \* per invocation: what PrintResult wrote
    calls,       \* per invocation: the switch client calls made so far
    failedAt,    \* per invocation: the step that failed, "" = none
    nsGone,      \* per invocation: its namespace was absent when it returned
    lockedOSThread, \* per invocation: runtime.LockOSThread() is in effect
    prev,        \* per process slot: its previous invocation, if a cmdAdd that succeeded
    nreq         \* number of invocations started

vars == <<switches, ports, namespaces, veths, pc, req, n, br, handle,
          hostIface, contIface, result, retStatus, retErr, out, calls,
          failedAt, nsGone, lockedOSThread, prev, nreq>>

kernel == <<namespaces, veths>>
daemon == <<switches, ports>>

----------------------------------------------------------------------------
(* Bounds and input sets *)

MaxRequests == 2

Procs == {"p1", "p2"}

NsPaths == {"/ns/a", "/ns/b"}

IfNames == {"eth0"}

HostVethNames == {"veth-a", "veth-b"}

defaultBrName == "ovsbr0"

Malformed ==
    [valid |-> FALSE, bridge |-> <<>>, mtu |-> 0, pNIC |-> "", cniVersion |-> ""]

\* Configurations on stdin: bridge is <<>> when the "bridge" key is absent
Stdins ==
    { Malformed,
      [valid |-> TRUE, bridge |-> <<>>, mtu |-> 1500, pNIC |-> "eth1",
       cniVersion |-> "0.3.1"],
      [valid |-> TRUE, bridge |-> <<"br1">>, mtu |-> 1500, pNIC |-> "eth1",
       cniVersion |-> "0.3.1"] }

----------------------------------------------------------------------------
(* Values *)

NoConf == [BrName |-> "", MTU |-> 0, PNIC |-> "", CNIVersion |-> ""]

NoIface == [Name |-> "", Mac |-> "", Sandbox |-> ""]

NoErr == [msg |-> "", names |-> <<>>, cause |-> ""]

NoReq == [cmd |-> "", stdin |-> Malformed, netns |-> "", ifName |-> ""]

NoPrev == [netns |-> "", BrName |-> "", PNIC |-> ""]

\* fmt.Errorf(msg, names..., err)
Errorf(msg, names, cause) == [msg |-> msg, names |-> names, cause |-> cause]

MacOf(name) == "mac-" \o name

----------------------------------------------------------------------------
(* loadNetConf *)

loadNetConf(bytes) ==
    IF ~bytes.valid
    THEN [conf |-> NoConf, err |-> Errorf("failed to load netconf", <<>>, "json")]
    ELSE [conf |-> [BrName |-> IF bytes.bridge = <<>> THEN defaultBrName
                                ELSE bytes.bridge[1],
                    MTU |-> bytes.mtu,
                    PNIC |-> bytes.pNIC,
                    CNIVersion |-> bytes.cniVersion],
          err |-> NoErr]

----------------------------------------------------------------------------
Init ==
    /\ switches = {}
    /\ ports = {}
    /\ namespaces = NsPaths
    /\ veths = {}
    /\ pc = [p \in Procs |-> "idle"]
    /\ req = [p \in Procs |-> NoReq]
    /\ n = [p \in Procs |-> NoConf]
    /\ br = [p \in Procs |-> ""]
    /\ handle = [p \in Procs |-> "none"]
    /\ hostIface = [p \in Procs |-> NoIface]
    /\ contIface = [p \in Procs |-> NoIface]
    /\ result = [p \in Procs |-> <<>>]
    /\ retStatus = [p \in Procs |-> ""]
    /\ retErr = [p \in Procs |-> NoErr]
    /\ out = [p \in Procs |-> <<>>]
    /\ calls = [p \in Procs |-> <<>>]
    /\ failedAt = [p \in Procs |-> ""]
    /\ nsGone = [p \in Procs |-> FALSE]
    /\ lockedOSThread = [p \in Procs |-> FALSE]
    /\ prev = [p \in Procs |-> NoPrev]
    /\ nreq = 0

----------------------------------------------------------------------------
(* The switch client (OVSSwitch), per its contract *)

ClientCall(op, sw, ifname, site) ==
    [op |-> op, sw |-> sw, ifname |-> ifname, site |-> site]

\* NewOVSSwitch(name): an existing switch is returned, an absent one is
\* created or the creation fails
EnsureSwitchCanFail(name) == name \notin switches

\* addPort is idempotent on this switch and refuses an interface that is
\* bound to another switch; a new binding is made or the daemon fails
AddPortCanSucceed(sw, ifname) ==
    \A b \in ports : b.ifname = ifname => b.sw = sw

AddPortCanFail(sw, ifname) ==
    [sw |-> sw, ifname |-> ifname] \notin ports

AddPortBinding(sw, ifname) == [sw |-> sw, ifname |-> ifname]

----------------------------------------------------------------------------
(* Kernel helpers *)

\* names of the interfaces of the host namespace that veth creation avoids
HostIfNames == {v.host : v \in veths}

\* interface names present in namespace ns
IfNamesIn(ns) == {v.cont : v \in {w \in veths : w.ns = ns}}

----------------------------------------------------------------------------
(* skel.PluginMain: one invocation of the plugin *)

\* a process start that leaves the goroutine free to move between threads
init_NoLock(p) ==
    lockedOSThread' = [lockedOSThread EXCEPT ![p] = FALSE]

\* lines 26-31: init() runs when the process starts, before main
init(p) ==
    lockedOSThread' = [lockedOSThread EXCEPT ![p] = TRUE]

\* what a slot remembers of its previous invocation: the namespace, switch
\* and uplink of a cmdAdd that returned success
Summary(p) ==
    IF pc[p] = "returned" /\ req[p].cmd = "ADD" /\ retStatus[p] = "ok"
    THEN [netns |-> req[p].netns, BrName |-> n[p].BrName, PNIC |-> n[p].PNIC]
    ELSE NoPrev

Invoke(p, cmd, stdin, netns, ifName) ==
    /\ pc[p] \in {"idle", "returned"}
    /\ nreq < MaxRequests
    /\ nreq' = nreq + 1
    /\ prev' = [prev EXCEPT ![p] = Summary(p)]
    /\ req' = [req EXCEPT ![p] = [cmd |-> cmd, stdin |-> stdin,
                                  netns |-> netns, ifName |-> ifName]]
    /\ pc' = [pc EXCEPT ![p] = IF cmd = "ADD" THEN "add_loadNetConf"
                               ELSE "del_loadNetConf"]
    /\ n' = [n EXCEPT ![p] = NoConf]
    /\ br' = [br EXCEPT ![p] = ""]
    /\ handle' = [handle EXCEPT ![p] = "none"]
    /\ hostIface' = [hostIface EXCEPT ![p] = NoIface]
    /\ contIface' = [contIface EXCEPT ![p] = NoIface]
    /\ result' = [result EXCEPT ![p] = <<>>]
    /\ retStatus' = [retStatus EXCEPT ![p] = "running"]
    /\ retErr' = [retErr EXCEPT ![p] = NoErr]
    /\ out' = [out EXCEPT ![p] = <<>>]
    /\ calls' = [calls EXCEPT ![p] = <<>>]
    /\ failedAt' = [failedAt EXCEPT ![p] = ""]
    /\ nsGone' = [nsGone EXCEPT ![p] = FALSE]
    /\ init(p)
    /\ UNCHANGED <<kernel, daemon>>

\* a return statement that leaves the namespace handle open
Return_NoClose(p, status, err, step) ==
    /\ pc' = [pc EXCEPT ![p] = "returned"]
    /\ retStatus' = [retStatus EXCEPT ![p] = status]
    /\ retErr' = [retErr EXCEPT ![p] = err]
    /\ failedAt' = [failedAt EXCEPT ![p] = step]
    /\ nsGone' = [nsGone EXCEPT ![p] = req[p].netns \notin namespaces]
    /\ UNCHANGED <<lockedOSThread, handle>>

\* a return statement of cmdAdd/cmdDel; the deferred netns.Close() (line 102)
\* runs when the handle was acquired
Return(p, status, err, step) ==
    /\ pc' = [pc EXCEPT ![p] = "returned"]
    /\ retStatus' = [retStatus EXCEPT ![p] = status]
    /\ retErr' = [retErr EXCEPT ![p] = err]
    /\ failedAt' = [failedAt EXCEPT ![p] = step]
    /\ nsGone' = [nsGone EXCEPT ![p] = req[p].netns \notin namespaces]
    /\ UNCHANGED lockedOSThread
    /\ handle' = [handle EXCEPT ![p] = IF @ = "open" THEN "closed" ELSE @]

Goto(p, label) ==
    /\ pc' = [pc EXCEPT ![p] = label]
    /\ UNCHANGED <<retStatus, retErr, failedAt, nsGone, lockedOSThread>>

----------------------------------------------------------------------------
(* cmdAdd *)

\* lines 84-87
CmdAddLoadNetConf(p) ==
    /\ pc[p] = "add_loadNetConf"
    /\ LET r == loadNetConf(req[p].stdin) IN
       IF r.err # NoErr
       THEN /\ Return(p, "err", r.err, "loadNetConf")
            /\ UNCHANGED n
       ELSE /\ n' = [n EXCEPT ![p] = r.conf]
            /\ Goto(p, "add_setupBridge")
            /\ UNCHANGED handle
    /\ UNCHANGED <<kernel, daemon, req, br, hostIface, contIface, result,
                   out, calls, prev, nreq>>

\* cmdAdd that goes from setupBridge straight to the namespace
setupBridge_SkipsUplink(p) ==
    /\ pc[p] = "add_setupBridge"
    /\ calls' = [calls EXCEPT ![p] =
                   Append(@, ClientCall("ensureSwitch", n[p].BrName, "", "setupBridge"))]
    /\ \/ /\ switches' = switches \cup {n[p].BrName}
          /\ br' = [br EXCEPT ![p] = n[p].BrName]
          /\ Goto(p, "add_getNS")
          /\ UNCHANGED handle
       \/ /\ EnsureSwitchCanFail(n[p].BrName)
          /\ Return(p, "err",
                    Errorf("failed to create bridge", <<n[p].BrName>>,
                           "SwitchCreateError"),
                    "ensureSwitch")
          /\ UNCHANGED <<switches, br>>
    /\ UNCHANGED <<kernel, ports, req, n, hostIface, contIface, result,
                   out, prev, nreq>>

\* lines 89-92 with setupBridge (71-81)
setupBridge(p) ==
    /\ pc[p] = "add_setupBridge"
    /\ calls' = [calls EXCEPT ![p] =
                   Append(@, ClientCall("ensureSwitch", n[p].BrName, "", "setupBridge"))]
    /\ \/ /\ switches' = switches \cup {n[p].BrName}
          /\ br' = [br EXCEPT ![p] = n[p].BrName]
          /\ Goto(p, "add_uplink")
          /\ UNCHANGED handle
       \/ /\ EnsureSwitchCanFail(n[p].BrName)
          /\ Return(p, "err",
                    Errorf("failed to create bridge", <<n[p].BrName>>,
                           "SwitchCreateError"),
                    "ensureSwitch")
          /\ UNCHANGED <<switches, br>>
    /\ UNCHANGED <<kernel, ports, req, n, hostIface, contIface, result,
                   out, prev, nreq>>

\* cmdAdd that has opened the namespace before it attaches the uplink
CmdAddUplink_AfterGetNS(p) ==
    /\ pc[p] = "add_uplink"
    /\ calls' = [calls EXCEPT ![p] =
                   Append(@, ClientCall("addPort", br[p], n[p].PNIC, "uplink"))]
    /\ \/ /\ AddPortCanSucceed(br[p], n[p].PNIC)
          /\ ports' = ports \cup {AddPortBinding(br[p], n[p].PNIC)}
          /\ Goto(p, "add_getNS")
          /\ UNCHANGED handle
       \/ /\ AddPortCanFail(br[p], n[p].PNIC)
          /\ pc' = [pc EXCEPT ![p] = "returned"]
          /\ retStatus' = [retStatus EXCEPT ![p] = "err"]
          /\ retErr' = [retErr EXCEPT ![p] = Errorf("", <<>>, "PortAttachError")]
          /\ failedAt' = [failedAt EXCEPT ![p] = "uplink"]
          /\ nsGone' = [nsGone EXCEPT ![p] = req[p].netns \notin namespaces]
          /\ handle' = [handle EXCEPT ![p] =
                          IF req[p].netns \in namespaces THEN "closed" ELSE @]
          /\ UNCHANGED <<ports, lockedOSThread>>
    /\ UNCHANGED <<kernel, switches, req, n, br, hostIface, contIface, result,
                   out, prev, nreq>>

\* cmdAdd that takes an uplink already attached to the switch for an error
CmdAddUplink_FailsIfBound(p) ==
    /\ pc[p] = "add_uplink"
    /\ calls' = [calls EXCEPT ![p] =
                   Append(@, ClientCall("addPort", br[p], n[p].PNIC, "uplink"))]
    /\ \/ /\ AddPortCanSucceed(br[p], n[p].PNIC)
          /\ AddPortBinding(br[p], n[p].PNIC) \notin ports
          /\ ports' = ports \cup {AddPortBinding(br[p], n[p].PNIC)}
          /\ Goto(p, "add_getNS")
          /\ UNCHANGED handle
       \/ /\ \/ AddPortCanFail(br[p], n[p].PNIC)
             \/ AddPortBinding(br[p], n[p].PNIC) \in ports
          /\ Return(p, "err", Errorf("", <<>>, "PortAttachError"), "uplink")
          /\ UNCHANGED ports
    /\ UNCHANGED <<kernel, switches, req, n, br, hostIface, contIface, result,
                   out, prev, nreq>>

\* cmdAdd that undoes setupBridge when the uplink cannot be attached
CmdAddUplink_DeletesBridge(p) ==
    /\ pc[p] = "add_uplink"
    /\ calls' = [calls EXCEPT ![p] =
                   Append(@, ClientCall("addPort", br[p], n[p].PNIC, "uplink"))]
    /\ \/ /\ AddPortCanSucceed(br[p], n[p].PNIC)
          /\ ports' = ports \cup {AddPortBinding(br[p], n[p].PNIC)}
          /\ Goto(p, "add_getNS")
          /\ UNCHANGED <<handle, switches>>
       \/ /\ AddPortCanFail(br[p], n[p].PNIC)
          /\ Return(p, "err", Errorf("", <<>>, "PortAttachError"), "uplink")
          /\ switches' = switches \ {br[p]}
          /\ UNCHANGED ports
    /\ UNCHANGED <<kernel, req, n, br, hostIface, contIface, result,
                   out, prev, nreq>>

\* lines 94-96
CmdAddUplink(p) ==
    /\ pc[p] = "add_uplink"
    /\ calls' = [calls EXCEPT ![p] =
                   Append(@, ClientCall("addPort", br[p], n[p].PNIC, "uplink"))]
    /\ \/ /\ AddPortCanSucceed(br[p], n[p].PNIC)
          /\ ports' = ports \cup {AddPortBinding(br[p], n[p].PNIC)}
          /\ Goto(p, "add_getNS")
          /\ UNCHANGED handle
       \/ /\ AddPortCanFail(br[p], n[p].PNIC)
          /\ Return(p, "err", Errorf("", <<>>, "PortAttachError"), "uplink")
          /\ UNCHANGED ports
    /\ UNCHANGED <<kernel, switches, req, n, br, hostIface, contIface, result,
                   out, prev, nreq>>

\* lines 98-102
CmdAddGetNS(p) ==
    /\ pc[p] = "add_getNS"
    /\ IF req[p].netns \in namespaces
       THEN /\ handle' = [handle EXCEPT ![p] = "open"]
            /\ Goto(p, "add_newResult")
       ELSE Return(p, "err",
                   Errorf("failed to open netns", <<req[p].netns>>,
                          "NamespaceOpenError"),
                   "getNS")
    /\ UNCHANGED <<kernel, daemon, req, n, br, hostIface, contIface, result,
                   out, calls, prev, nreq>>

\* lines 107-110: current.NewResultFromResult(nil).  The library is handed a
\* nil interface value: it converts it, reports an error, or dereferences it
\* (a run-time panic, which unwinds through the deferred Close)
CmdAddNewResult(p) ==
    /\ pc[p] = "add_newResult"
    /\ \/ /\ Goto(p, "add_setupVeth")
          /\ UNCHANGED handle
       \/ Return(p, "err", Errorf("", <<>>, "ResultConvertError"), "newResult")
       \/ Return(p, "panic", NoErr, "newResult")
    /\ UNCHANGED <<kernel, daemon, req, n, br, hostIface, contIface, result,
                   out, calls, prev, nreq>>

----------------------------------------------------------------------------
(* setupVeth *)

\* the veth pair ip.SetupVeth(ifName, mtu, hostNS) makes from inside netns:
\* the container end is named ifName, the host end gets the generated name
NewVeth(hostName, ifName, ns, mtu) ==
    [host |-> hostName, cont |-> ifName, ns |-> ns, mtu |-> mtu]

\* lines 53-55
ContIfaceOf(v, path) ==
    [Name |-> v.cont, Mac |-> MacOf(v.cont), Sandbox |-> path]

\* line 56
HostIfaceOf(v) ==
    [Name |-> v.host, Mac |-> "", Sandbox |-> ""]

\* lines 47-61 and 112-115: netns.Do(ip.SetupVeth)
SetupVethCreate(p) ==
    /\ pc[p] = "add_setupVeth"
    /\ \/ /\ req[p].ifName \notin IfNamesIn(req[p].netns)
          /\ \E h \in HostVethNames \ HostIfNames :
               LET v == NewVeth(h, req[p].ifName, req[p].netns, n[p].MTU) IN
               /\ veths' = veths \cup {v}
               /\ contIface' = [contIface EXCEPT ![p] = ContIfaceOf(v, req[p].netns)]
               /\ hostIface' = [hostIface EXCEPT ![p] = HostIfaceOf(v)]
          /\ Goto(p, "add_vethPort")
          /\ UNCHANGED handle
       \/ /\ Return(p, "err", Errorf("", <<>>, "VethCreateError"), "setupVeth")
          /\ UNCHANGED <<veths, contIface, hostIface>>
    /\ UNCHANGED <<namespaces, daemon, req, n, br, result, out, calls, prev, nreq>>

\* line 64: the interface name setupVeth hands to br.addPort
VethPortName(host, cont) == cont.Name

\* the result with the two veth ends in the wrong order
ResultInterfaces_Swapped(brInterface, hostInterface, containerInterface) ==
    <<brInterface, containerInterface, hostInterface>>

\* line 117
ResultInterfaces(brInterface, hostInterface, containerInterface) ==
    <<brInterface, hostInterface, containerInterface>>

\* lines 78-80: the interface setupBridge returns
BrInterface(conf) == [Name |-> conf.BrName, Mac |-> "", Sandbox |-> ""]

\* lines 63-68 and 112-117: br.addPort, then result.Interfaces
SetupVethAddPort(p) ==
    /\ pc[p] = "add_vethPort"
    /\ LET name == VethPortName(hostIface[p], contIface[p]) IN
       /\ calls' = [calls EXCEPT ![p] =
                      Append(@, ClientCall("addPort", br[p], name, "setupVeth"))]
       /\ \/ /\ AddPortCanSucceed(br[p], name)
             /\ ports' = ports \cup {AddPortBinding(br[p], name)}
             /\ result' = [result EXCEPT ![p] =
                             ResultInterfaces(BrInterface(n[p]), hostIface[p],
                                              contIface[p])]
             /\ Goto(p, "add_lookup")
             /\ UNCHANGED handle
          \/ /\ AddPortCanFail(br[p], name)
             /\ Return(p, "err",
                       Errorf("failed to connect", <<hostIface[p].Name, br[p]>>,
                              "PortAttachError"),
                       "vethPort")
             /\ UNCHANGED <<ports, result>>
    /\ UNCHANGED <<kernel, switches, req, n, br, hostIface, contIface, out,
                   prev, nreq>>

----------------------------------------------------------------------------
(* cmdAdd, continued *)

\* cmdAdd that prints the result before the final lookup
CmdAddLookup_PrintsFirst(p) ==
    /\ pc[p] = "add_lookup"
    /\ out' = [out EXCEPT ![p] =
                 Append(@, [cniVersion |-> n[p].CNIVersion,
                            interfaces |-> result[p]])]
    /\ \/ /\ req[p].ifName \in IfNamesIn(req[p].netns)
          /\ Return(p, "ok", NoErr, "")
       \/ Return(p, "err", Errorf("", <<>>, "InterfaceLookupError"), "lookup")
    /\ UNCHANGED <<kernel, daemon, req, n, br, hostIface, contIface, result,
                   calls, prev, nreq>>

\* lines 119-140: net.InterfaceByName(args.IfName) inside the namespace;
\* entering the namespace or the lookup itself may fail
CmdAddLookup(p) ==
    /\ pc[p] = "add_lookup"
    /\ \/ /\ req[p].ifName \in IfNamesIn(req[p].netns)
          /\ Goto(p, "add_printResult")
          /\ UNCHANGED handle
       \/ Return(p, "err", Errorf("", <<>>, "InterfaceLookupError"), "lookup")
    /\ UNCHANGED <<kernel, daemon, req, n, br, hostIface, contIface, result,
                   out, calls, prev, nreq>>

\* line 149: types.PrintResult(result, cniVersion)
CmdAddPrintResult(p) ==
    /\ pc[p] = "add_printResult"
    /\ out' = [out EXCEPT ![p] =
                 Append(@, [cniVersion |-> n[p].CNIVersion,
                            interfaces |-> result[p]])]
    /\ Return(p, "ok", NoErr, "")
    /\ UNCHANGED <<kernel, daemon, req, n, br, hostIface, contIface, result,
                   calls, prev, nreq>>

----------------------------------------------------------------------------
(* cmdDel *)

\* cmdDel that looks at the namespace path before it parses the configuration
CmdDelLoadNetConf_NetnsFirst(p) ==
    /\ pc[p] = "del_loadNetConf"
    /\ LET r == loadNetConf(req[p].stdin) IN
       IF req[p].netns = ""
       THEN /\ Return(p, "ok", NoErr, "")
            /\ UNCHANGED n
       ELSE IF r.err # NoErr
       THEN /\ Return(p, "err", r.err, "loadNetConf")
            /\ UNCHANGED n
       ELSE /\ n' = [n EXCEPT ![p] = r.conf]
            /\ Goto(p, "del_netns")
            /\ UNCHANGED handle
    /\ UNCHANGED <<kernel, daemon, req, br, hostIface, contIface, result,
                   out, calls, prev, nreq>>

\* lines 153-157
CmdDelLoadNetConf(p) ==
    /\ pc[p] = "del_loadNetConf"
    /\ LET r == loadNetConf(req[p].stdin) IN
       IF r.err # NoErr
       THEN /\ Return(p, "err", r.err, "loadNetConf")
            /\ UNCHANGED n
       ELSE /\ n' = [n EXCEPT ![p] = r.conf]
            /\ Goto(p, "del_netns")
            /\ UNCHANGED handle
    /\ UNCHANGED <<kernel, daemon, req, br, hostIface, contIface, result,
                   out, calls, prev, nreq>>

\* cmdDel that treats a missing namespace path as an error
CmdDelNetns_EmptyIsError(p) ==
    /\ pc[p] = "del_netns"
    /\ IF req[p].netns = ""
       THEN Return(p, "err", Errorf("", <<>>, "NamespaceOpenError"), "getNS")
       ELSE Return(p, "ok", NoErr, "")
    /\ UNCHANGED <<kernel, daemon, req, n, br, hostIface, contIface, result,
                   out, calls, prev, nreq>>

\* cmdDel that opens the namespace, as cmdAdd does, and fails when it is gone
CmdDelNetns_OpensNamespace(p) ==
    /\ pc[p] = "del_netns"
    /\ IF req[p].netns = "" \/ req[p].netns \in namespaces
       THEN Return(p, "ok", NoErr, "")
       ELSE Return(p, "err",
                   Errorf("failed to open netns", <<req[p].netns>>,
                          "NamespaceOpenError"),
                   "getNS")
    /\ UNCHANGED <<kernel, daemon, req, n, br, hostIface, contIface, result,
                   out, calls, prev, nreq>>

\* lines 159-163: both branches return nil; nothing else is done
CmdDelNetns(p) ==
    /\ pc[p] = "del_netns"
    /\ IF req[p].netns = ""
       THEN Return(p, "ok", NoErr, "")
       ELSE Return(p, "ok", NoErr, "")
    /\ UNCHANGED <<kernel, daemon, req, n, br, hostIface, contIface, result,
                   out, calls, prev, nreq>>

----------------------------------------------------------------------------
(* Environment: the container runtime destroys a namespace no invocation *)
(* holds open; the kernel reclaims the veth pairs that have an end in it  *)

NsDestroy(ns) ==
    /\ ns \in namespaces
    /\ \A p \in Procs : ~(handle[p] = "open" /\ req[p].netns = ns)
    /\ namespaces' = namespaces \ {ns}
    /\ veths' = {v \in veths : v.ns # ns}
    /\ UNCHANGED <<daemon, pc, req, n, br, handle, hostIface, contIface,
                   result, retStatus, retErr, out, calls, failedAt, nsGone,
                   lockedOSThread, prev, nreq>>

----------------------------------------------------------------------------
Next ==
    \/ \E p \in Procs, cmd \in {"ADD", "DEL"}, stdin \in Stdins,
          netns \in NsPaths \cup {""}, ifName \in IfNames :
         \* slots are interchangeable: they are taken into use in order
         /\ p = "p2" => pc["p1"] # "idle"
         /\ ~stdin.valid => netns \in {"", "/ns/a"}
         /\ Invoke(p, cmd, stdin, netns, ifName)
    \/ \E p \in Procs : CmdAddLoadNetConf(p)
    \/ \E p \in Procs : setupBridge(p)
    \/ \E p \in Procs : CmdAddUplink(p)
    \/ \E p \in Procs : CmdAddGetNS(p)
    \/ \E p \in Procs : CmdAddNewResult(p)
    \/ \E p \in Procs : SetupVethCreate(p)
    \/ \E p \in Procs : SetupVethAddPort(p)
    \/ \E p \in Procs : CmdAddLookup(p)
    \/ \E p \in Procs : CmdAddPrintResult(p)
    \/ \E p \in Procs : CmdDelLoadNetConf(p)
    \/ \E p \in Procs : CmdDelNetns(p)
    \/ \E ns \in NsPaths : NsDestroy(ns)

Spec == Init /\ [][Next]_vars

----------------------------------------------------------------------------
(* loadNetConf on its own: one invocation that has just been handed its   *)
(* configuration, drawn from every combination of the JSON keys           *)

\* "bridge" absent, empty, the default name, another name
ConfInputs ==
    [valid : BOOLEAN,
     bridge : {<<>>, <<"">>, <<"ovsbr0">>, <<"br1">>},
     mtu : {0, 1500},
     pNIC : {"", "eth1"},
     cniVersion : {"", "0.3.1"}]

InitConf ==
    /\ switches = {}
    /\ ports = {}
    /\ namespaces = NsPaths
    /\ veths = {}
    /\ \E cmd \in {"ADD", "DEL"}, bytes \in ConfInputs :
         /\ req = [p \in Procs |->
                     IF p = "p1"
                     THEN [cmd |-> cmd, stdin |-> bytes, netns |-> "/ns/a",
                           ifName |-> "eth0"]
                     ELSE NoReq]
         /\ pc = [p \in Procs |->
                    IF p # "p1" THEN "idle"
                    ELSE IF cmd = "ADD" THEN "add_loadNetConf"
                    ELSE "del_loadNetConf"]
    /\ n = [p \in Procs |-> NoConf]
    /\ br = [p \in Procs |-> ""]
    /\ handle = [p \in Procs |-> "none"]
    /\ hostIface = [p \in Procs |-> NoIface]
    /\ contIface = [p \in Procs |-> NoIface]
    /\ result = [p \in Procs |-> <<>>]
    /\ retStatus = [p \in Procs |-> IF p = "p1" THEN "running" ELSE ""]
    /\ retErr = [p \in Procs |-> NoErr]
    /\ out = [p \in Procs |-> <<>>]
    /\ calls = [p \in Procs |-> <<>>]
    /\ failedAt = [p \in Procs |-> ""]
    /\ nsGone = [p \in Procs |-> FALSE]
    /\ lockedOSThread = [p \in Procs |-> p = "p1"]
    /\ prev = [p \in Procs |-> NoPrev]
    /\ nreq = 1

NextConf ==
    \/ \E p \in Procs : CmdAddLoadNetConf(p)
    \/ \E p \in Procs : CmdDelLoadNetConf(p)

SpecConf == InitConf /\ [][NextConf]_vars

----------------------------------------------------------------------------
(* Properties *)

Returned(p, cmd) == pc[p] = "returned" /\ req[p].cmd = cmd

\* the port bindings of switch sw, by interface name
PortsOf(sw) == {b.ifname : b \in {c \in ports : c.sw = sw}}

\* the veth pair invocation p created is still there
VethOfExists(p) ==
    \E v \in veths : /\ v.host = hostIface[p].Name
                     /\ v.cont = contIface[p].Name
                     /\ v.ns = contIface[p].Sandbox

\* C1: the interface name cmdAdd passes to addPort when it attaches the veth
\* to the switch is the host-side end of the pair it created, never the
\* container-side name; so after a successful cmdAdd the switch binds the
\* host end named in the result.
C1_HostEndIsAttached ==
    \A p \in Procs :
        /\ \A i \in DOMAIN calls[p] :
              calls[p][i].site = "setupVeth" =>
                  /\ calls[p][i].ifname = hostIface[p].Name
                  /\ calls[p][i].ifname # contIface[p].Name
        /\ (Returned(p, "ADD") /\ retStatus[p] = "ok") =>
              out[p][1].interfaces[2].Name \in PortsOf(n[p].BrName)

\* C2: when the host-port addPort fails after the veth pair was created, the
\* pair is gone (both ends) at the moment cmdAdd returns the error.
C2_VethDeletedWhenAttachFails ==
    \A p \in Procs :
        (Returned(p, "ADD") /\ failedAt[p] = "vethPort") =>
            /\ hostIface[p].Name \notin HostIfNames
            /\ ~VethOfExists(p)

\* C3: a cmdAdd that succeeded, followed by a cmdDel with the same namespace
\* path and switch, leaves the switch in place with the uplink as its only
\* port binding (no other invocation having touched the switch).
C3_DelDetachesHostPort ==
    \A p \in Procs :
        ( /\ Returned(p, "DEL") /\ retStatus[p] = "ok"
          /\ req[p].netns # ""
          /\ prev[p] # NoPrev
          /\ prev[p].netns = req[p].netns
          /\ prev[p].BrName = n[p].BrName
          /\ \A q \in Procs \ {p} : pc[q] = "idle" ) =>
            /\ n[p].BrName \in switches
            /\ PortsOf(n[p].BrName) = {prev[p].PNIC}

\* C4: two cmdAdd invocations for the same new switch and two different
\* namespaces (both still there), however their steps interleave, both
\* having returned success: the one switch holds two distinct non-uplink
\* port bindings, one for each.
C4_ConcurrentAddsBothAttached ==
    \A p, q \in Procs :
        ( /\ p # q
          /\ nreq = 2
          /\ Returned(p, "ADD") /\ retStatus[p] = "ok"
          /\ Returned(q, "ADD") /\ retStatus[q] = "ok"
          /\ n[p].BrName = n[q].BrName
          /\ req[p].netns # req[q].netns
          /\ {req[p].netns, req[q].netns} \subseteq namespaces ) =>
            /\ n[p].BrName \in switches
            /\ calls[p][3].ifname # calls[q][3].ifname
            /\ Cardinality(PortsOf(n[p].BrName) \ {n[p].PNIC, n[q].PNIC}) = 2

\* C5 as stated: cmdDel with an empty namespace path returns success for
\* every request and makes no switch client call.
C5_EmptyNetnsDelAlwaysSucceeds ==
    \A p \in Procs :
        (Returned(p, "DEL") /\ req[p].netns = "") =>
            /\ retStatus[p] = "ok"
            /\ calls[p] = <<>>

\* C5 (amended): cmdDel with an empty namespace path makes no switch client
\* call, and returns success whenever the configuration parses; when it does
\* not parse, the parse error is returned.
C5_EmptyNetnsDel ==
    \A p \in Procs :
        (req[p].cmd = "DEL" /\ req[p].netns = "") =>
            /\ calls[p] = <<>>
            /\ pc[p] = "returned" =>
                  IF req[p].stdin.valid
                  THEN retStatus[p] = "ok" /\ retErr[p] = NoErr
                  ELSE retStatus[p] = "err" /\ failedAt[p] = "loadNetConf"

C5_Witness ==
    \E p \in Procs :
        /\ Returned(p, "DEL") /\ req[p].netns = ""
        /\ req[p].stdin.valid /\ retStatus[p] = "ok"
        /\ switches # {}

\* C6: cmdDel with a well-formed configuration and a non-empty namespace path
\* returns success, also when the namespace (and with it the interface) is
\* already gone or the namespace holds no such interface.
C6_DelSucceedsWhenAbsent ==
    \A p \in Procs :
        (Returned(p, "DEL") /\ req[p].stdin.valid /\ req[p].netns # "") =>
            /\ retStatus[p] = "ok"
            /\ retErr[p] = NoErr

C6_Witness ==
    \E p \in Procs :
        /\ Returned(p, "DEL") /\ req[p].stdin.valid /\ req[p].netns # ""
        /\ nsGone[p]
        /\ retStatus[p] = "ok"

\* the steps of cmdAdd that C7 lists
AddSteps ==
    {"loadNetConf", "ensureSwitch", "uplink", "getNS", "setupVeth",
     "vethPort", "lookup"}

\* C7: cmdAdd writes a result only when every step has succeeded, and then
\* the complete one; when a step fails it returns an error and has written
\* nothing.
C7_ResultOnlyOnSuccess ==
    \A p \in Procs :
        req[p].cmd = "ADD" =>
            /\ out[p] # <<>> =>
                  /\ pc[p] = "returned" /\ retStatus[p] = "ok"
                  /\ failedAt[p] = ""
                  /\ Len(out[p]) = 1
                  /\ Len(out[p][1].interfaces) = 3
            /\ failedAt[p] \in AddSteps =>
                  /\ pc[p] = "returned" /\ retStatus[p] = "err"
                  /\ retErr[p] # NoErr
                  /\ out[p] = <<>>

C7_Witness ==
    \E p \in Procs :
        /\ Returned(p, "ADD") /\ failedAt[p] = "lookup"
        /\ Len(result[p]) = 3
        /\ out[p] = <<>>

\* C8: a successful cmdAdd lists exactly three interfaces, in the order
\* switch, host veth end, container veth end: the switch named by the
\* configured bridge name, switch and host end without sandbox, the container
\* end with the requested name and the request's namespace path as sandbox.
C8_ResultShape ==
    \A p \in Procs :
        (Returned(p, "ADD") /\ retStatus[p] = "ok") =>
            /\ Len(out[p]) = 1
            /\ LET r == out[p][1].interfaces
                   conf == req[p].stdin
               IN  /\ Len(r) = 3
                   /\ r[1].Name = IF conf.bridge = <<>> THEN "ovsbr0"
                                  ELSE conf.bridge[1]
                   /\ r[1].Sandbox = ""
                   /\ r[2].Name \in HostVethNames
                   /\ r[2].Sandbox = ""
                   /\ r[3].Name = req[p].ifName
                   /\ r[3].Sandbox = req[p].netns
                   /\ r[3].Sandbox # ""

C8_Witness ==
    \E p \in Procs :
        /\ Returned(p, "ADD") /\ retStatus[p] = "ok"
        /\ req[p].stdin.bridge # <<>>
        /\ Len(out[p]) = 1

\* C9: whenever cmdAdd returns an error after it created the veth pair (the
\* host-port attach or the final lookup failed), the pair no longer exists
\* and the switch holds no port binding for either of its ends.
C9_NoOrphanAfterError ==
    \A p \in Procs :
        ( /\ Returned(p, "ADD") /\ retStatus[p] = "err"
          /\ failedAt[p] \in {"vethPort", "lookup"} ) =>
            /\ ~VethOfExists(p)
            /\ failedAt[p] = "lookup" =>
                  PortsOf(br[p]) \cap {hostIface[p].Name, contIface[p].Name} = {}

\* C10: a switch that exists is never removed, whatever cmdAdd and cmdDel
\* invocations run and however they end.
C10_SwitchNeverDeleted == [][switches \subseteq switches']_vars

C10_Witness ==
    \E p, q \in Procs :
        /\ Returned(p, "DEL") /\ retStatus[p] = "ok" /\ req[p].netns # ""
        /\ Returned(q, "ADD") /\ retStatus[q] = "err"
        /\ n[p].BrName = br[q]
        /\ br[q] \in switches

\* C11: the switch name loadNetConf resolves is non-empty for every
\* configuration that parses: "ovsbr0" when the configuration names no
\* bridge, the name it gives otherwise.
C11_SwitchNameNonEmpty ==
    \A p \in Procs :
        pc[p] \in {"add_setupBridge", "del_netns"} =>
            /\ n[p].BrName # ""
            /\ n[p].BrName = IF req[p].stdin.bridge = <<>> THEN "ovsbr0"
                             ELSE req[p].stdin.bridge[1]

\* the switch client calls of one cmdAdd, in the order of the code
CallOrder == <<"setupBridge", "uplink", "setupVeth">>

\* C12: within one cmdAdd the steps happen in the order ensureSwitch, uplink
\* addPort, namespace acquisition, veth creation, host-port addPort, result;
\* a step is only taken when every step before it has succeeded.
C12_StepsInOrder ==
    \A p \in Procs :
        req[p].cmd = "ADD" =>
            /\ Len(calls[p]) <= 3
            /\ \A i \in DOMAIN calls[p] : calls[p][i].site = CallOrder[i]
            \* uplink addPort: after ensureSwitch succeeded
            /\ Len(calls[p]) >= 2 =>
                  /\ br[p] = n[p].BrName /\ br[p] \in switches
                  /\ calls[p][1].op = "ensureSwitch"
            \* namespace acquisition: after the uplink was attached
            /\ handle[p] # "none" =>
                  /\ Len(calls[p]) >= 2
                  /\ AddPortBinding(br[p], n[p].PNIC) \in ports
            \* veth creation: after the namespace was acquired
            /\ hostIface[p] # NoIface => handle[p] # "none"
            \* host-port addPort: after the veth pair was created
            /\ Len(calls[p]) = 3 => hostIface[p] # NoIface
            \* result: after the host port was attached
            /\ (result[p] # <<>> \/ out[p] # <<>>) =>
                  /\ Len(calls[p]) = 3
                  /\ AddPortBinding(calls[p][3].sw, calls[p][3].ifname) \in ports
            \* nothing follows a failed step
            /\ failedAt[p] # "" => pc[p] = "returned"

C12_Witness ==
    \E p \in Procs :
        /\ Returned(p, "ADD") /\ retStatus[p] = "ok"
        /\ Len(calls[p]) = 3
        /\ handle[p] = "closed"
        /\ Len(out[p]) = 1

\* C17: the thread of control is pinned to its OS thread before request
\* handling starts and stays pinned: whenever cmdAdd or cmdDel is executing,
\* and after it has returned, the pin is in effect.
C17_PinnedWhileHandling ==
    \A p \in Procs : pc[p] # "idle" => lockedOSThread[p]

C17_Witness ==
    \E p \in Procs :
        /\ pc[p] = "add_setupVeth"
        /\ handle[p] = "open"
        /\ lockedOSThread[p]

\* where cmdAdd is once ns.GetNS has succeeded
HandleHeldAt ==
    {"add_newResult", "add_setupVeth", "add_vethPort", "add_lookup",
     "add_printResult"}

\* the steps of cmdAdd that can fail before the handle is acquired
BeforeHandle == {"loadNetConf", "ensureSwitch", "uplink", "getNS"}

HandleInv(p) ==
    req[p].cmd = "ADD" =>
        /\ pc[p] \in HandleHeldAt => handle[p] = "open"
        /\ pc[p] \in {"add_loadNetConf", "add_setupBridge", "add_uplink",
                      "add_getNS"} => handle[p] = "none"
        /\ pc[p] = "returned" =>
              handle[p] = IF failedAt[p] \in BeforeHandle THEN "none"
                          ELSE "closed"

\* C13: a cmdAdd that acquired the namespace handle releases it exactly once,
\* when it returns (with success, with an error after the acquisition, or
\* unwinding); all in-namespace work is done with the handle open; when the
\* acquisition fails nothing is released.
C13_HandleReleasedOnce ==
    [][\A p \in Procs :
          /\ HandleInv(p)'
          /\ handle'[p] # handle[p] =>
                \/ /\ handle[p] = "none" /\ handle'[p] = "open"
                   /\ pc[p] = "add_getNS" /\ pc'[p] = "add_newResult"
                \/ /\ handle[p] = "open" /\ handle'[p] = "closed"
                   /\ pc[p] \in HandleHeldAt /\ pc'[p] = "returned"
                \/ /\ handle[p] = "closed" /\ handle'[p] = "none"
                   /\ pc[p] = "returned" /\ pc'[p] # "returned"]_vars

C13_Witness ==
    \E p \in Procs :
        /\ Returned(p, "ADD") /\ failedAt[p] = "vethPort"
        /\ handle[p] = "closed"
        /\ \E q \in Procs :
              /\ Returned(q, "ADD") /\ failedAt[q] = "getNS"
              /\ handle[q] = "none"

\* C14: when ensureSwitch or the uplink addPort fails, cmdAdd returns an
\* error having acquired no namespace handle, created no veth pair and made
\* no per-container port binding; when ensureSwitch fails it has made no
\* addPort call at all.
C14_EarlyFailureTouchesNothing ==
    \A p \in Procs :
        (req[p].cmd = "ADD" /\ failedAt[p] \in {"ensureSwitch", "uplink"}) =>
            /\ pc[p] = "returned" /\ retStatus[p] = "err"
            /\ handle[p] = "none"
            /\ hostIface[p] = NoIface /\ contIface[p] = NoIface
            /\ \A i \in DOMAIN calls[p] : calls[p][i].site # "setupVeth"
            /\ out[p] = <<>>
            /\ IF failedAt[p] = "ensureSwitch"
               THEN /\ Len(calls[p]) = 1
                    /\ calls[p][1].op = "ensureSwitch"
                    /\ br[p] = ""
               ELSE /\ Len(calls[p]) = 2
                    /\ calls[p][2] = ClientCall("addPort", br[p], n[p].PNIC, "uplink")

C14_Witness ==
    \E p, q \in Procs :
        /\ Returned(p, "ADD") /\ failedAt[p] = "ensureSwitch"
        /\ Returned(q, "ADD") /\ failedAt[q] = "uplink"
        /\ veths = {}

ResourceOf(p) ==
    CASE failedAt[p] = "ensureSwitch" -> n[p].BrName
      [] failedAt[p] = "uplink" -> n[p].PNIC
      [] failedAt[p] = "getNS" -> req[p].netns
      [] failedAt[p] = "setupVeth" -> req[p].ifName
      [] failedAt[p] = "vethPort" -> calls[p][Len(calls[p])].ifname

\* C16: every error cmdAdd returns is the failing step's error, annotated
\* with the step that failed and the name of the resource involved: the
\* switch name, the uplink name, the namespace path, the interface name, the
\* name of the interface that was passed to addPort.
C16_ErrorsAnnotated ==
    \A p \in Procs :
        ( /\ Returned(p, "ADD")
          /\ failedAt[p] \in {"ensureSwitch", "uplink", "getNS", "setupVeth",
                               "vethPort"} ) =>
            /\ retStatus[p] = "err"
            /\ retErr[p].cause # ""
            /\ retErr[p].msg # ""
            /\ \E i \in DOMAIN retErr[p].names :
                  retErr[p].names[i] = ResourceOf(p)

\* C18: when the configuration does not parse, cmdAdd and cmdDel (the latter
\* also with an empty namespace path) return an error as their first step:
\* no switch client call, no namespace handle, no veth pair, no result, and
\* switches, port bindings, namespaces and interfaces are left as they were.
C18_ParseFailureHasNoEffect ==
    [][\A p \in Procs :
          ( /\ pc[p] \in {"add_loadNetConf", "del_loadNetConf"}
            /\ ~req[p].stdin.valid
            /\ pc'[p] # pc[p] ) =>
              /\ pc'[p] = "returned"
              /\ retStatus'[p] = "err" /\ retErr'[p] # NoErr
              /\ failedAt'[p] = "loadNetConf"
              /\ calls'[p] = <<>>
              /\ handle'[p] = "none"
              /\ hostIface'[p] = NoIface /\ contIface'[p] = NoIface
              /\ out'[p] = <<>> /\ result'[p] = <<>>
              /\ UNCHANGED <<switches, ports, namespaces, veths>>]_vars

C18_Witness ==
    \E p, q \in Procs :
        /\ Returned(p, "DEL") /\ ~req[p].stdin.valid /\ req[p].netns = ""
        /\ retStatus[p] = "err"
        /\ Returned(q, "ADD") /\ ~req[q].stdin.valid
        /\ retStatus[q] = "err"

====
